---- MODULE Spec2Model ----
(***************************************************************************)
(* Model of the 2D platform client (src/src/main.cpp): the frame loop, the *)
(* packet dispatcher, the remote player maps, the map loader and the       *)
(* animation state machine.                                                *)
(*                                                                         *)
(* Units: time in centiseconds (0.1f s = 10), positions in tenths of a     *)
(* world unit (0.1f = 1, 5.0 = 50, the start position {400,300} =          *)
(* <<4000,3000>>).  A packet is the sequence of its fields, tag first;     *)
(* extraction fails when the fields run out.                               *)
(***************************************************************************)
EXTENDS Integers, Sequences, FiniteSets, TLC

\* ------------------------------------------------------------ constants

STATE_CHANGE_COOLDOWN == 10

WalkThreshold == 1

InvalidId == -1

TagWelcome == 0

TagPlayerState == 1

TagPlayerInput == 2

TagPlayerJoined == 3

TagPlayerLeft == 4

TagMapData == 5

AnimStates == {"Stand", "Walk", "Jump", "Stance"}

animData ==
    [s \in AnimStates |->
        CASE s = "Stand"  -> [startFrameIndex |-> 64, frameCount |-> 1, timePerFrame |-> 18]
          [] s = "Walk"   -> [startFrameIndex |-> 32, frameCount |-> 8, timePerFrame |-> 10]
          [] s = "Jump"   -> [startFrameIndex |-> 42, frameCount |-> 6, timePerFrame |-> 10]
          [] s = "Stance" -> [startFrameIndex |-> 0,  frameCount |-> 4, timePerFrame |-> 18]]

StartPos == <<4000, 3000>>

SpriteDefaultPos == <<0, 0>>

\* ------------------------------------------------------------ bounds

MaxTimer == 40

MaxFrames == 2

\* the player IDs of the packets
Ids == {1, 2}

\* ------------------------------------------------------------ state

VARIABLES
    pc, windowOpen, connected, currentInput,
    myPlayerId, myIsOnGround, playerPos,
    currentAnimState, currentFrame, animTimer, stateChangeCooldownTimer, facingRight,
    otherPlayers, otherPlayersAnimState, otherPlayersCurrentFrame,
    otherPlayersAnimTimer, otherPlayersFacingRight,
    clientTileMap, clientMapWidth, clientMapHeight, mapShapes, mapLoaded,
    packet, sentInputs, discarded, lastLocalXY, frames, airborneFrames, hadRecord,
    connectAttempts, serverLost, unknownSeen, sinceChange, deferral

loopVars == <<pc, windowOpen, connected, currentInput>>

localVars == <<myPlayerId, myIsOnGround, playerPos>>

animVars == <<currentAnimState, currentFrame, animTimer, stateChangeCooldownTimer, facingRight>>

regVars == <<otherPlayers, otherPlayersAnimState, otherPlayersCurrentFrame,
             otherPlayersAnimTimer, otherPlayersFacingRight>>

mapVars == <<clientTileMap, clientMapWidth, clientMapHeight, mapShapes, mapLoaded>>

histVars == <<packet, sentInputs, discarded, lastLocalXY, frames, airborneFrames,
              hadRecord, connectAttempts, serverLost, unknownSeen, sinceChange,
              deferral>>

vars == <<loopVars, localVars, animVars, regVars, mapVars, histVars>>

EmptyMap == [i \in {} |-> 0]

NoInput == [left |-> FALSE, right |-> FALSE]

\* the state at the top of the loop, with the connection and local ID given
InitWith(isConnected, id) ==
    /\ pc = "loop"
    /\ windowOpen = TRUE
    /\ connected = isConnected
    /\ currentInput = NoInput
    /\ myPlayerId = id
    /\ myIsOnGround = TRUE
    /\ playerPos = StartPos
    /\ currentAnimState = "Stand"
    /\ currentFrame = 0
    /\ animTimer = 0
    /\ stateChangeCooldownTimer = 0
    /\ facingRight = TRUE
    /\ otherPlayers = EmptyMap
    /\ otherPlayersAnimState = EmptyMap
    /\ otherPlayersCurrentFrame = EmptyMap
    /\ otherPlayersAnimTimer = EmptyMap
    /\ otherPlayersFacingRight = EmptyMap
    /\ clientTileMap = << >>
    /\ clientMapWidth = 0
    /\ clientMapHeight = 0
    /\ mapShapes = << >>
    /\ mapLoaded = FALSE
    /\ packet = << >>
    /\ sentInputs = 0
    /\ discarded = FALSE
    /\ lastLocalXY = StartPos
    /\ frames = 0
    /\ airborneFrames = 0
    /\ hadRecord = FALSE
    /\ connectAttempts = 0
    /\ serverLost = FALSE
    /\ unknownSeen = FALSE
    /\ sinceChange = STATE_CHANGE_COOLDOWN
    /\ deferral = "none"

\* the state after construction (lines 86-142)
Init == InitWith(FALSE, InvalidId)

\* connected and welcomed as player 1, no packet applied since
InitWelcomed == InitWith(TRUE, 1)

\* ------------------------------------------------------------ std::map helpers

\* map[id] = v
Put(map, id, v) == [k \in (DOMAIN map) \cup {id} |-> IF k = id THEN v ELSE map[k]]

\* map.erase(id)
Erase(map, id) == [k \in (DOMAIN map) \ {id} |-> map[k]]

Abs(n) == IF n < 0 THEN -n ELSE n

Min(a, b) == IF a < b THEN a ELSE b

\* ------------------------------------------------------------ packet decoding

\* packet >> type succeeds when the packet holds a tag byte
HasTag(p) == Len(p) >= 1

\* packet >> f1 >> ... >> fn succeeds when n fields follow the tag
HasFields(p, n) == Len(p) >= 1 + n

\* packet >> bool : a byte, true when non-zero
AsBool(b) == b # 0

\* the packet is dropped by one of the `continue` statements of the receive loop
Dropped(p) ==
    \/ ~HasTag(p)
    \/ HasTag(p) /\ p[1] = TagWelcome /\ ~HasFields(p, 1)
    \/ HasTag(p) /\ p[1] = TagPlayerState /\ ~HasFields(p, 4)
    \/ HasTag(p) /\ p[1] = TagPlayerJoined /\ ~HasFields(p, 4)
    \/ HasTag(p) /\ p[1] = TagPlayerLeft /\ ~HasFields(p, 1)

\* ------------------------------------------------------------ animation policy

\* mutant: the target state is taken from the local player's ground flag
RemoteTargetStateLocalGround(isOnGround, x, otherPrevX) ==
    IF ~myIsOnGround THEN "Jump"
    ELSE IF Abs(x - otherPrevX) > WalkThreshold THEN "Walk"
    ELSE "Stand"

RemoteTargetState(isOnGround, x, otherPrevX) ==
    IF ~isOnGround THEN "Jump"
    ELSE IF Abs(x - otherPrevX) > WalkThreshold THEN "Walk"
    ELSE "Stand"

RemoteFacing(facing, x, otherPrevX) ==
    IF x > otherPrevX THEN TRUE
    ELSE IF x < otherPrevX THEN FALSE
    ELSE facing

\* mutant: a held direction key wins over the ground flag
LocalTargetStateKeysFirst(onGround, input) ==
    IF input.left \/ input.right THEN "Walk"
    ELSE IF ~onGround THEN "Jump"
    ELSE "Stand"

LocalTargetState(onGround, input) ==
    IF ~onGround THEN "Jump"
    ELSE IF input.left \/ input.right THEN "Walk"
    ELSE "Stand"

\* mutant: the frame index is advanced without wrapping
StepFrameNoWrap(state, frame, timer) ==
    LET data == animData[state] IN
    IF timer >= data.timePerFrame
    THEN <<frame + 1, timer - data.timePerFrame>>
    ELSE <<frame, timer>>

\* mutant: the change is made only in a frame that finds the cooldown at
\* exactly zero
LocalChangeAtZero(targetState) ==
    currentAnimState # targetState /\ stateChangeCooldownTimer = 0

\* mutant: the local state changes whenever the target differs
LocalChangeNoGate(targetState) == currentAnimState # targetState

\* line 434: the local state changes when the target differs and the
\* cooldown has run out
LocalChange(targetState) ==
    currentAnimState # targetState /\ stateChangeCooldownTimer <= 0

\* the frame advance of one update: <<frame, timer>> after it
StepFrame(state, frame, timer) ==
    LET data == animData[state] IN
    IF timer >= data.timePerFrame
    THEN <<(frame + 1) % data.frameCount, timer - data.timePerFrame>>
    ELSE <<frame, timer>>

\* ------------------------------------------------------------ dispatcher cases

OnWelcome(p) ==
    /\ myPlayerId' = p[2]
    /\ UNCHANGED <<myIsOnGround, playerPos, regVars, mapVars>>

\* mutant: the sprite moves half of the way to the received position
ApplyLocalStateLerp(x, y, isOnGround) ==
    /\ myIsOnGround' = isOnGround
    /\ playerPos' = <<(playerPos[1] + x) \div 2, (playerPos[2] + y) \div 2>>
    /\ UNCHANGED <<myPlayerId, regVars, mapVars>>

\* lines 234-238: the state is the local player's
ApplyLocalState(x, y, isOnGround) ==
    /\ myIsOnGround' = isOnGround
    /\ playerPos' = <<x, y>>
    /\ UNCHANGED <<myPlayerId, regVars, mapVars>>

\* mutant: the other player's ground flag is stored through otherGroundState,
\* the alias of the local flag
ApplyRemoteStateThroughAlias(id, x, y, isOnGround) ==
    LET created == id \notin DOMAIN otherPlayers
        sprites0 == IF created THEN Put(otherPlayers, id, SpriteDefaultPos) ELSE otherPlayers
        state0 == IF created THEN Put(otherPlayersAnimState, id, "Stand") ELSE otherPlayersAnimState
        frame0 == IF created THEN Put(otherPlayersCurrentFrame, id, 0) ELSE otherPlayersCurrentFrame
        timer0 == IF created THEN Put(otherPlayersAnimTimer, id, 0) ELSE otherPlayersAnimTimer
        facing0 == IF created THEN Put(otherPlayersFacingRight, id, TRUE) ELSE otherPlayersFacingRight
        otherPrevX == sprites0[id][1]
        targetOtherState == RemoteTargetState(isOnGround, x, otherPrevX)
        changed == state0[id] # targetOtherState
    IN
    /\ myIsOnGround' = isOnGround
    /\ otherPlayers' = Put(sprites0, id, <<x, y>>)
    /\ otherPlayersFacingRight' = Put(facing0, id, RemoteFacing(facing0[id], x, otherPrevX))
    /\ otherPlayersCurrentFrame' = IF changed THEN Put(frame0, id, 0) ELSE frame0
    /\ otherPlayersAnimTimer' = IF changed THEN Put(timer0, id, 0) ELSE timer0
    /\ otherPlayersAnimState' = Put(state0, id, targetOtherState)
    /\ UNCHANGED <<myPlayerId, playerPos, mapVars>>

\* mutant: a change of state keeps the frame index and the frame timer
ApplyRemoteStateNoReset(id, x, y, isOnGround) ==
    LET created == id \notin DOMAIN otherPlayers
        sprites0 == IF created THEN Put(otherPlayers, id, SpriteDefaultPos) ELSE otherPlayers
        state0 == IF created THEN Put(otherPlayersAnimState, id, "Stand") ELSE otherPlayersAnimState
        facing0 == IF created THEN Put(otherPlayersFacingRight, id, TRUE) ELSE otherPlayersFacingRight
        otherPrevX == sprites0[id][1]
    IN
    /\ otherPlayers' = Put(sprites0, id, <<x, y>>)
    /\ otherPlayersFacingRight' = Put(facing0, id, RemoteFacing(facing0[id], x, otherPrevX))
    /\ otherPlayersCurrentFrame' =
          IF created THEN Put(otherPlayersCurrentFrame, id, 0) ELSE otherPlayersCurrentFrame
    /\ otherPlayersAnimTimer' =
          IF created THEN Put(otherPlayersAnimTimer, id, 0) ELSE otherPlayersAnimTimer
    /\ otherPlayersAnimState' = Put(state0, id, RemoteTargetState(isOnGround, x, otherPrevX))
    /\ UNCHANGED <<localVars, mapVars>>

\* lines 240-297: the state is another player's
ApplyRemoteState(id, x, y, isOnGround) ==
    LET created == id \notin DOMAIN otherPlayers
        sprites0 == IF created THEN Put(otherPlayers, id, SpriteDefaultPos) ELSE otherPlayers
        state0 == IF created \/ id \notin DOMAIN otherPlayersAnimState
                  THEN Put(otherPlayersAnimState, id, "Stand") ELSE otherPlayersAnimState
        frame0 == IF created THEN Put(otherPlayersCurrentFrame, id, 0) ELSE otherPlayersCurrentFrame
        timer0 == IF created THEN Put(otherPlayersAnimTimer, id, 0) ELSE otherPlayersAnimTimer
        facing0 == IF created THEN Put(otherPlayersFacingRight, id, TRUE) ELSE otherPlayersFacingRight
        otherPrevX == sprites0[id][1]
        targetOtherState == RemoteTargetState(isOnGround, x, otherPrevX)
        changed == state0[id] # targetOtherState
    IN
    /\ otherPlayers' = Put(sprites0, id, <<x, y>>)
    /\ otherPlayersFacingRight' =
          IF id \in DOMAIN facing0 \/ x # otherPrevX
          THEN Put(facing0, id, RemoteFacing(facing0[id], x, otherPrevX))
          ELSE facing0
    /\ otherPlayersCurrentFrame' = IF changed THEN Put(frame0, id, 0) ELSE frame0
    /\ otherPlayersAnimTimer' = IF changed THEN Put(timer0, id, 0) ELSE timer0
    /\ otherPlayersAnimState' = Put(state0, id, targetOtherState)
    /\ UNCHANGED <<localVars, mapVars>>

OnPlayerState(p) ==
    IF p[2] = myPlayerId
    THEN ApplyLocalState(p[3], p[4], AsBool(p[5]))
    ELSE ApplyRemoteState(p[2], p[3], p[4], AsBool(p[5]))

\* mutant: the record is made without looking for one that exists
OnPlayerJoinedNoCheck(p) ==
    IF p[2] # myPlayerId
    THEN /\ otherPlayers' = Put(otherPlayers, p[2], <<p[3], p[4]>>)
         /\ otherPlayersAnimState' =
               Put(otherPlayersAnimState, p[2], IF AsBool(p[5]) THEN "Stand" ELSE "Jump")
         /\ otherPlayersCurrentFrame' = Put(otherPlayersCurrentFrame, p[2], 0)
         /\ otherPlayersAnimTimer' = Put(otherPlayersAnimTimer, p[2], 0)
         /\ otherPlayersFacingRight' = Put(otherPlayersFacingRight, p[2], TRUE)
         /\ UNCHANGED <<localVars, mapVars>>
    ELSE UNCHANGED <<localVars, regVars, mapVars>>

OnPlayerJoined(p) ==
    LET id == p[2]
        x == p[3]
        y == p[4]
        onGround == AsBool(p[5])
    IN
    IF id # myPlayerId /\ id \notin DOMAIN otherPlayers
    THEN /\ otherPlayers' = Put(otherPlayers, id, <<x, y>>)
         /\ otherPlayersAnimState' =
               Put(otherPlayersAnimState, id, IF onGround THEN "Stand" ELSE "Jump")
         /\ otherPlayersCurrentFrame' = Put(otherPlayersCurrentFrame, id, 0)
         /\ otherPlayersAnimTimer' = Put(otherPlayersAnimTimer, id, 0)
         /\ otherPlayersFacingRight' = Put(otherPlayersFacingRight, id, TRUE)
         /\ UNCHANGED <<localVars, mapVars>>
    ELSE UNCHANGED <<localVars, regVars, mapVars>>

\* mutant: the leaver's state is looked up with operator[], which inserts it
OnPlayerLeftLookup(p) ==
    IF p[2] # myPlayerId /\ p[2] \in DOMAIN otherPlayers
    THEN /\ otherPlayers' = Erase(otherPlayers, p[2])
         /\ otherPlayersAnimState' = Erase(otherPlayersAnimState, p[2])
         /\ otherPlayersCurrentFrame' = Erase(otherPlayersCurrentFrame, p[2])
         /\ otherPlayersAnimTimer' = Erase(otherPlayersAnimTimer, p[2])
         /\ otherPlayersFacingRight' = Erase(otherPlayersFacingRight, p[2])
         /\ UNCHANGED <<localVars, mapVars>>
    ELSE /\ otherPlayersAnimState' =
               IF p[2] \in DOMAIN otherPlayersAnimState
               THEN otherPlayersAnimState
               ELSE Put(otherPlayersAnimState, p[2], "Stand")
         /\ UNCHANGED <<localVars, otherPlayers, otherPlayersCurrentFrame,
                        otherPlayersAnimTimer, otherPlayersFacingRight, mapVars>>

\* mutant: the leaver's sprite is erased and the other four entries are kept
OnPlayerLeftSpriteOnly(p) ==
    IF p[2] # myPlayerId /\ p[2] \in DOMAIN otherPlayers
    THEN /\ otherPlayers' = Erase(otherPlayers, p[2])
         /\ UNCHANGED <<localVars, otherPlayersAnimState, otherPlayersCurrentFrame,
                        otherPlayersAnimTimer, otherPlayersFacingRight, mapVars>>
    ELSE UNCHANGED <<localVars, regVars, mapVars>>

OnPlayerLeft(p) ==
    LET id == p[2] IN
    IF id # myPlayerId /\ id \in DOMAIN otherPlayers
    THEN /\ otherPlayers' = Erase(otherPlayers, id)
         /\ otherPlayersAnimState' = Erase(otherPlayersAnimState, id)
         /\ otherPlayersCurrentFrame' = Erase(otherPlayersCurrentFrame, id)
         /\ otherPlayersAnimTimer' = Erase(otherPlayersAnimTimer, id)
         /\ otherPlayersFacingRight' = Erase(otherPlayersFacingRight, id)
         /\ UNCHANGED <<localVars, mapVars>>
    ELSE UNCHANGED <<localVars, regVars, mapVars>>

\* ------------------------------------------------------------ MapData

\* clientTileMap.resize(h, std::vector<int>(w)): rows that exist are kept as
\* they are, missing rows are added with w zero cells
ResizeRows(rows, h, w) ==
    [i \in 1..h |-> IF i <= Len(rows) THEN rows[i] ELSE [j \in 1..w |-> 0]]

\* The tile loop from cell k on (row-major).  A write to a cell beyond the
\* end of a kept row is out of bounds: the row keeps its size and `oob` is
\* set.  Gives the grid, the shapes, parseOk and oob.
RECURSIVE ParseTiles(_, _, _, _, _, _, _)
ParseTiles(p, w, h, k, rows, shapes, oob) ==
    IF k >= w * h
    THEN [rows |-> rows, shapes |-> shapes, parseOk |-> TRUE, oob |-> oob]
    ELSE IF ~HasFields(p, 2 + k + 1)
    THEN [rows |-> rows, shapes |-> shapes, parseOk |-> FALSE, oob |-> oob]
    ELSE
      LET y == k \div w
          x == k % w
          tileValue == p[4 + k]
          inRow == x + 1 <= Len(rows[y + 1])
          rows1 == IF inRow THEN [rows EXCEPT ![y + 1][x + 1] = tileValue] ELSE rows
          shapes1 == IF tileValue = 1 THEN Append(shapes, <<x, y>>) ELSE shapes
      IN ParseTiles(p, w, h, k + 1, rows1, shapes1, oob \/ ~inRow)

\* case MapData.  An out-of-bounds write is undefined behaviour: the process
\* either goes on (the write landed outside the row) or dies.
OnMapData(p) ==
    IF HasFields(p, 2)
    THEN
      LET width == p[2]
          height == p[3]
          r == ParseTiles(p, width, height, 0,
                          ResizeRows(clientTileMap, height, width), << >>, FALSE)
      IN
      /\ clientMapWidth' = width
      /\ clientMapHeight' = height
      /\ clientTileMap' = r.rows
      /\ mapShapes' = r.shapes
      /\ mapLoaded' = (mapLoaded \/ r.parseOk)
      /\ pc' \in (IF r.oob THEN {"recv", "crashed"} ELSE {"recv"})
      /\ UNCHANGED <<localVars, regVars>>
    ELSE
      /\ pc' = "recv"
      /\ UNCHANGED <<localVars, regVars, mapVars>>

\* ------------------------------------------------------------ the frame loop

\* mutant: a close request ends the frame at once
BeginFrameAbortOnClose(dt, closeEvent, connectOk) ==
    /\ pc = "loop"
    /\ windowOpen
    /\ animTimer + dt <= MaxTimer
    /\ \A id \in DOMAIN otherPlayersAnimTimer : otherPlayersAnimTimer[id] + dt <= MaxTimer
    /\ animTimer' = animTimer + dt
    /\ stateChangeCooldownTimer' =
          IF stateChangeCooldownTimer > 0
          THEN stateChangeCooldownTimer - dt
          ELSE stateChangeCooldownTimer
    /\ otherPlayersAnimTimer' =
          [id \in DOMAIN otherPlayersAnimTimer |-> otherPlayersAnimTimer[id] + dt]
    /\ windowOpen' = ~closeEvent
    /\ connected' = (connected \/ connectOk)
    /\ connectAttempts' = IF connected THEN 0 ELSE 1
    /\ sentInputs' = 0
    /\ discarded' = FALSE
    /\ unknownSeen' = FALSE
    /\ sinceChange' = Min(sinceChange + dt, STATE_CHANGE_COOLDOWN)
    /\ pc' = IF closeEvent THEN "loop" ELSE "input"
    /\ UNCHANGED <<currentInput, localVars, currentAnimState, currentFrame, facingRight,
                   otherPlayers, otherPlayersAnimState, otherPlayersCurrentFrame,
                   otherPlayersFacingRight, mapVars, packet, lastLocalXY, airborneFrames, hadRecord,
                   serverLost, deferral>>

\* lines 143-175: a frame starts while the window is open; the timers take
\* dt, the close event closes the window, a disconnected client tries to
\* connect
BeginFrame(dt, closeEvent, connectOk) ==
    /\ pc = "loop"
    /\ windowOpen
    /\ animTimer + dt <= MaxTimer
    /\ \A id \in DOMAIN otherPlayersAnimTimer : otherPlayersAnimTimer[id] + dt <= MaxTimer
    /\ animTimer' = animTimer + dt
    /\ stateChangeCooldownTimer' =
          IF stateChangeCooldownTimer > 0
          THEN stateChangeCooldownTimer - dt
          ELSE stateChangeCooldownTimer
    /\ otherPlayersAnimTimer' =
          [id \in DOMAIN otherPlayersAnimTimer |-> otherPlayersAnimTimer[id] + dt]
    /\ windowOpen' = ~closeEvent
    /\ connected' = (connected \/ connectOk)
    /\ connectAttempts' = IF connected THEN 0 ELSE 1
    /\ sentInputs' = 0
    /\ discarded' = FALSE
    /\ unknownSeen' = FALSE
    /\ sinceChange' = Min(sinceChange + dt, STATE_CHANGE_COOLDOWN)
    /\ pc' = "input"
    /\ UNCHANGED <<currentInput, localVars, currentAnimState, currentFrame, facingRight,
                   otherPlayers, otherPlayersAnimState, otherPlayersCurrentFrame,
                   otherPlayersFacingRight, mapVars, packet, lastLocalXY, airborneFrames, hadRecord,
                   serverLost, deferral>>

\* a frame of a session of at most MaxFrames frames
BoundedFrame(dt, closeEvent, connectOk) ==
    /\ frames < MaxFrames
    /\ frames' = frames + 1
    /\ BeginFrame(dt, closeEvent, connectOk)

\* a frame of a session of any length
FreeFrame(dt, closeEvent, connectOk) ==
    /\ frames' = frames
    /\ BeginFrame(dt, closeEvent, connectOk)

\* lines 177-190
SampleInput(hasFocus, left, right) ==
    /\ pc = "input"
    /\ currentInput' = IF hasFocus THEN [left |-> left, right |-> right] ELSE NoInput
    /\ facingRight' =
          IF hasFocus /\ right THEN TRUE
          ELSE IF hasFocus /\ left THEN FALSE
          ELSE facingRight
    /\ pc' = "send"
    /\ UNCHANGED <<windowOpen, connected, localVars, currentAnimState, currentFrame,
                   animTimer, stateChangeCooldownTimer, regVars, mapVars, histVars>>

\* mutant: the input is sent only while a direction key is held
SendInputWhenKeyHeld ==
    /\ pc = "send"
    /\ sentInputs' =
          IF connected /\ (currentInput.left \/ currentInput.right)
          THEN sentInputs + 1
          ELSE sentInputs
    /\ pc' = IF connected THEN "recv" ELSE "anim"
    /\ UNCHANGED <<windowOpen, connected, currentInput, localVars, animVars, regVars,
                   mapVars, packet, discarded, lastLocalXY, frames, airborneFrames, hadRecord,
                   connectAttempts, serverLost, unknownSeen, sinceChange, deferral>>

\* lines 192-198
SendInput ==
    /\ pc = "send"
    /\ sentInputs' = IF connected THEN sentInputs + 1 ELSE sentInputs
    /\ pc' = IF connected THEN "recv" ELSE "anim"
    /\ UNCHANGED <<windowOpen, connected, currentInput, localVars, animVars, regVars,
                   mapVars, packet, discarded, lastLocalXY, frames, airborneFrames, hadRecord,
                   connectAttempts, serverLost, unknownSeen, sinceChange, deferral>>

\* mutant: a failed extraction ends the receive loop of the frame
DiscardAndLeaveLoop ==
    /\ discarded' = TRUE
    /\ pc' = "anim"
    /\ UNCHANGED <<localVars, regVars, mapVars>>

\* the `continue` of a failed extraction: the packet is given up and the loop
\* receives the next one
Discard ==
    /\ discarded' = TRUE
    /\ pc' = "recv"
    /\ UNCHANGED <<localVars, regVars, mapVars>>

\* mutant: a tag without a case ends the receive loop of the frame
OnUnknownLeaveLoop ==
    /\ unknownSeen' = TRUE
    /\ pc' = "anim"
    /\ UNCHANGED <<localVars, regVars, mapVars>>

\* lines 402-404: the default case logs the tag and the loop goes on
OnUnknown ==
    /\ unknownSeen' = TRUE
    /\ pc' = "recv"
    /\ UNCHANGED <<localVars, regVars, mapVars>>

\* lines 201-405: socket.receive(packet) == Done, and the packet is decoded
\* and applied
Receive(m) ==
    /\ pc = "recv"
    /\ packet' = m
    /\ IF Dropped(m)
       THEN Discard /\ unknownSeen' = unknownSeen
       ELSE /\ discarded' = discarded
            /\ CASE m[1] = TagWelcome ->
                        OnWelcome(m) /\ pc' = "recv" /\ unknownSeen' = unknownSeen
                 [] m[1] = TagPlayerState ->
                        OnPlayerState(m) /\ pc' = "recv" /\ unknownSeen' = unknownSeen
                 [] m[1] = TagPlayerJoined ->
                        OnPlayerJoined(m) /\ pc' = "recv" /\ unknownSeen' = unknownSeen
                 [] m[1] = TagPlayerLeft ->
                        OnPlayerLeft(m) /\ pc' = "recv" /\ unknownSeen' = unknownSeen
                 [] m[1] = TagMapData -> OnMapData(m) /\ unknownSeen' = unknownSeen
                 [] OTHER -> OnUnknown
    /\ lastLocalXY' =
          IF HasFields(m, 4) /\ m[1] = TagPlayerState /\ m[2] = myPlayerId
          THEN <<m[3], m[4]>>
          ELSE lastLocalXY
    /\ hadRecord' = (HasFields(m, 1) /\ m[2] \in DOMAIN otherPlayers)
    /\ UNCHANGED <<windowOpen, connected, currentInput, animVars, sentInputs, frames,
                   airborneFrames, connectAttempts, serverLost, sinceChange, deferral>>

\* mutant: a lost connection leaves the window open, so the next frame
\* connects again
EndReceiveKeepOpen(serverGone) ==
    /\ pc = "recv"
    /\ connected' = ~serverGone
    /\ windowOpen' = windowOpen
    /\ packet' = << >>
    /\ hadRecord' = FALSE
    /\ serverLost' = (serverLost \/ serverGone)
    /\ pc' = "anim"
    /\ UNCHANGED <<currentInput, localVars, animVars, regVars, mapVars,
                   sentInputs, discarded, lastLocalXY, frames, airborneFrames,
                   connectAttempts, unknownSeen, sinceChange, deferral>>

\* lines 406-415: no packet is ready; the client closes when the server is gone
EndReceive(serverGone) ==
    /\ pc = "recv"
    /\ connected' = ~serverGone
    /\ windowOpen' = (windowOpen /\ ~serverGone)
    /\ packet' = << >>
    /\ hadRecord' = FALSE
    /\ serverLost' = (serverLost \/ serverGone)
    /\ pc' = "anim"
    /\ UNCHANGED <<currentInput, localVars, animVars, regVars, mapVars,
                   sentInputs, discarded, lastLocalXY, frames, airborneFrames,
                   connectAttempts, unknownSeen, sinceChange, deferral>>

\* lines 417-494: the local transition and frame advance, then the frame
\* advance of every other player
Animate ==
    /\ pc = "anim"
    /\ LET targetState == LocalTargetState(myIsOnGround, currentInput)
           change == LocalChange(targetState)
           state1 == IF change THEN targetState ELSE currentAnimState
           frame1 == IF change THEN 0 ELSE currentFrame
           timer1 == IF change THEN 0 ELSE animTimer
           adv == StepFrame(state1, frame1, timer1)
       IN
       /\ currentAnimState' = state1
       /\ stateChangeCooldownTimer' =
             IF change THEN STATE_CHANGE_COOLDOWN ELSE stateChangeCooldownTimer
       /\ currentFrame' = adv[1]
       /\ animTimer' = adv[2]
    /\ otherPlayersCurrentFrame' =
          [id \in DOMAIN otherPlayersCurrentFrame |->
              IF id \in DOMAIN otherPlayers /\ id \in DOMAIN otherPlayersAnimState
              THEN StepFrame(otherPlayersAnimState[id], otherPlayersCurrentFrame[id],
                             otherPlayersAnimTimer[id])[1]
              ELSE otherPlayersCurrentFrame[id]]
    /\ otherPlayersAnimTimer' =
          [id \in DOMAIN otherPlayersAnimTimer |->
              IF id \in DOMAIN otherPlayers /\ id \in DOMAIN otherPlayersAnimState
              THEN StepFrame(otherPlayersAnimState[id], otherPlayersCurrentFrame[id],
                             otherPlayersAnimTimer[id])[2]
              ELSE otherPlayersAnimTimer[id]]
    /\ airborneFrames' =
          IF currentAnimState = "Stand" /\ stateChangeCooldownTimer <= 0 /\ ~myIsOnGround
          THEN 1
          ELSE IF airborneFrames = 1 /\ ~myIsOnGround THEN 2 ELSE 0
    /\ sinceChange' = IF currentAnimState' # currentAnimState THEN 0 ELSE sinceChange
    \* history: a change the cooldown holds back, and its later application
    /\ deferral' =
          LET targetState == LocalTargetState(myIsOnGround, currentInput) IN
          IF LocalChange(targetState)
          THEN IF deferral = "deferred" THEN "applied" ELSE "none"
          ELSE IF currentAnimState # targetState THEN "deferred" ELSE "none"
    /\ pc' = "loop"
    /\ UNCHANGED <<windowOpen, connected, currentInput, localVars, facingRight,
                   otherPlayers, otherPlayersAnimState, otherPlayersFacingRight,
                   mapVars, packet, sentInputs, discarded, lastLocalXY, frames, hadRecord,
                   connectAttempts, serverLost, unknownSeen>>

\* line 143 fails: the window is closed and main returns
Exit ==
    /\ pc = "loop"
    /\ ~windowOpen
    /\ pc' = "exit"
    /\ UNCHANGED <<windowOpen, connected, currentInput, localVars, animVars, regVars,
                   mapVars, histVars>>

\* ------------------------------------------------------------ inputs

Bools == {FALSE, TRUE}

Fields(tag, id, pos, g) == <<tag, id, pos[1], pos[2], IF g THEN 1 ELSE 0>>

WelcomePackets == {<<TagWelcome, id>> : id \in Ids}

StatePackets(I, P) == {Fields(TagPlayerState, id, pos, g) : id \in I, pos \in P, g \in Bools}

JoinedPackets(I, P) == {Fields(TagPlayerJoined, id, pos, g) : id \in I, pos \in P, g \in Bools}

LeftPackets == {<<TagPlayerLeft, id>> : id \in Ids}

\* every packet cut short of a packet of S, the empty packet included
Prefixes(S) == UNION {{SubSeq(m, 1, n) : n \in 0..(Len(m) - 1)} : m \in S}

\* keyboard samples: <<hasFocus, left, right>>
AllKeys == Bools \X Bools \X Bools

FewKeys == {<<FALSE, FALSE, FALSE>>, <<TRUE, FALSE, TRUE>>}

IdleKeys == {<<FALSE, FALSE, FALSE>>}

\* the steps of a frame after its start, over keyboard samples Keys and
\* inbound packets Packets
Rest(Keys, Packets) ==
    \/ \E k \in Keys : SampleInput(k[1], k[2], k[3])
    \/ SendInput
    \/ \E m \in Packets : Receive(m)
    \/ \E serverGone \in Bools : EndReceive(serverGone)
    \/ Animate
    \/ Exit

\* the frame loop of a session of at most MaxFrames frames, over elapsed
\* times Dts and close requests Closes
Step(Dts, Closes, Keys, Packets) ==
    \/ \E dt \in Dts, closeEvent \in Closes, connectOk \in Bools :
          BoundedFrame(dt, closeEvent, connectOk)
    \/ Rest(Keys, Packets)

\* the frame loop of a session of any length
Run(Dts, Closes, Keys, Packets) ==
    \/ \E dt \in Dts, closeEvent \in Closes, connectOk \in Bools :
          FreeFrame(dt, closeEvent, connectOk)
    \/ Rest(Keys, Packets)

\* ------------------------------------------------------------ the session

SessionPositions == {<<0, 0>>, <<1, 0>>}

SessionPackets ==
    WelcomePackets \cup StatePackets(Ids, SessionPositions)
        \cup JoinedPackets(Ids, {<<1, 0>>}) \cup LeftPackets

\* a session with no key held and no close request: the window closes when
\* the server is gone
Next == Step({10}, {FALSE}, IdleKeys, SessionPackets)

Spec == Init /\ [][Next]_vars

\* ------------------------------------------------------------ malformed packets

DecodeSamples ==
    {<<TagWelcome, 1>>, Fields(TagPlayerState, 1, <<1, 0>>, FALSE),
     Fields(TagPlayerState, 2, <<50, 30>>, TRUE), Fields(TagPlayerJoined, 2, <<1, 0>>, TRUE),
     <<TagPlayerLeft, 2>>}

\* tags the switch has no case for
UnknownPackets == {<<TagPlayerInput, 0, 0, 1, 0, 0>>, <<6, 1>>}

MapSample == <<TagMapData, 1, 1, 1>>

DecodePackets ==
    DecodeSamples \cup Prefixes(DecodeSamples) \cup {MapSample}

NextDecode == Step({10}, Bools, FewKeys, DecodePackets)

SpecDecode == Init /\ [][NextDecode]_vars

\* ------------------------------------------------------------ unknown tags

UnknownTagPackets == DecodeSamples \cup UnknownPackets \cup {MapSample}

NextUnknown == Step({10}, Bools, FewKeys, UnknownTagPackets)

SpecUnknown == Init /\ [][NextUnknown]_vars

\* ------------------------------------------------------------ map loading

MapDims == {<<1, 1>>, <<2, 1>>, <<1, 2>>}

Tiles(n) == [1..n -> {0, 1}]

FullMapPackets == {<<TagMapData, d[1], d[2]>> \o t : d \in MapDims, t \in Tiles(2)}

\* well-formed maps, maps with tiles missing, and maps with a dimension missing
MapPackets ==
    {SubSeq(m, 1, n) : m \in FullMapPackets, n \in 1..5}

NextMap == Step({10}, Bools, FewKeys, MapPackets)

SpecMap == InitWelcomed /\ [][NextMap]_vars

\* ------------------------------------------------------------ one other player

RemotePositions == {<<0, 0>>, <<1, 0>>, <<2, 30>>, <<50, 30>>}

RemotePackets ==
    StatePackets({2}, RemotePositions) \cup JoinedPackets({2}, {<<1, 0>>})
        \cup {<<TagPlayerLeft, 2>>}

NextRemote == Step({10}, Bools, FewKeys, RemotePackets)

SpecRemote == InitWelcomed /\ [][NextRemote]_vars

\* ------------------------------------------------------------ local animation

AnimPackets == StatePackets({1}, {<<0, 0>>})

NextAnim == Run({5, 10, 35}, Bools, AllKeys, AnimPackets)

SpecAnim == InitWelcomed /\ [][NextAnim]_vars

\* ------------------------------------------------------------ long animation

\* the local player and one other player, animated over any number of frames
FramePackets ==
    StatePackets({1}, {<<0, 0>>}) \cup StatePackets({2}, {<<0, 0>>, <<50, 0>>})
        \cup JoinedPackets({2}, {<<1, 0>>}) \cup {<<TagPlayerLeft, 2>>}

NextFrames == Run({10}, {FALSE}, FewKeys, FramePackets)

SpecFrames == InitWelcomed /\ [][NextFrames]_vars

\* ------------------------------------------------------------ cooldown

\* the local player and one other player over frames shorter than, equal to
\* and longer than the cooldown
CooldownPackets ==
    StatePackets({1}, {<<0, 0>>}) \cup StatePackets({2}, {<<0, 0>>, <<50, 0>>})

NextCooldown == Step({5, 10, 15}, {FALSE}, FewKeys, CooldownPackets)

SpecCooldown == InitWelcomed /\ [][NextCooldown]_vars

\* ------------------------------------------------------------ deferred changes

\* elapsed times of a frame: none, less than the cooldown, more than it
LiveDts == {0, 5, 15}

\* keyboard samples with and without a direction held
LiveKeys == {<<FALSE, FALSE, FALSE>>, <<TRUE, TRUE, FALSE>>, <<TRUE, FALSE, TRUE>>}

LivePackets == StatePackets({1}, {<<0, 0>>})

NextLive == Run(LiveDts, {FALSE}, LiveKeys, LivePackets)

\* main is sequential code over a non-blocking socket: whenever it has a next
\* statement it executes it
SpecLive == InitWelcomed /\ [][NextLive]_vars /\ WF_vars(NextLive)

\* ------------------------------------------------------------ properties

\* a step of the receive loop: packet' is the packet it received and applied
ReceiveStep == pc = "recv" /\ pc' \in {"recv", "crashed"}

\* the animation update of a frame
AnimateStep == pc = "anim" /\ pc' = "loop"

IsState(p) == Len(p) >= 5 /\ p[1] = TagPlayerState

IsJoined(p) == Len(p) >= 5 /\ p[1] = TagPlayerJoined

IsLeft(p) == Len(p) >= 2 /\ p[1] = TagPlayerLeft

IsWelcome(p) == Len(p) >= 2 /\ p[1] = TagWelcome

\* C1: in every reachable state the remote player maps hold no entry keyed
\* by the current local player ID.
C1_LocalIdNeverInRegistry ==
    /\ myPlayerId \notin DOMAIN otherPlayers
    /\ myPlayerId \notin DOMAIN otherPlayersAnimState
    /\ myPlayerId \notin DOMAIN otherPlayersCurrentFrame
    /\ myPlayerId \notin DOMAIN otherPlayersAnimTimer
    /\ myPlayerId \notin DOMAIN otherPlayersFacingRight

\* C2: once Welcome has assigned the local ID, the local position is the
\* (x,y) of the last PlayerState that carried the local ID when it was
\* received (the start position if there was none); no other packet and no
\* animation step moves it.
C2_LocalPositionIsLastState ==
    myPlayerId # InvalidId => playerPos = lastLocalXY

\* C2 witness: after a PlayerState for the local player, one for another
\* player with a different position has been applied.
C2_Witness ==
    /\ pc = "recv"
    /\ myPlayerId \in Ids
    /\ playerPos = <<1, 0>>
    /\ IsState(packet)
    /\ packet[2] # myPlayerId
    /\ <<packet[3], packet[4]>> # playerPos
    /\ frames = 2

\* a MapData with width and height and fewer than width*height tiles
IsShortMap(p) ==
    /\ Len(p) >= 3
    /\ p[1] = TagMapData
    /\ Len(p) < 3 + p[2] * p[3]

\* C3: a MapData with too few tiles leaves width, height, grid, shapes and
\* the loaded flag as they were.
C3_ShortMapKeepsPrevious ==
    [][ReceiveStep /\ IsShortMap(packet') => UNCHANGED mapVars]_vars

\* C4: one update advances the frame index by as many whole frame durations
\* as fit in the accumulated timer (0.35 s at 0.1 s per frame: 3 frames) and
\* keeps the remainder, so the result does not depend on how the elapsed
\* time was split over updates.
C4_WholeFramesAdvance ==
    [][AnimateStep /\ currentAnimState' = currentAnimState =>
          LET data == animData[currentAnimState] IN
          /\ currentFrame' =
                (currentFrame + (animTimer \div data.timePerFrame)) % data.frameCount
          /\ animTimer' = animTimer % data.timePerFrame]_vars

\* a Welcome, PlayerState, PlayerJoined or PlayerLeft with fields missing,
\* or a packet with no tag
IsTruncated(p) ==
    \/ Len(p) = 0
    \/ p[1] \in {TagWelcome, TagPlayerLeft} /\ Len(p) < 2
    \/ p[1] \in {TagPlayerState, TagPlayerJoined} /\ Len(p) < 5

\* C5: a truncated packet changes neither the local ID, position and ground
\* flag, nor the registry, nor the map; the loop goes on receiving, and the
\* packets that follow it in the same drain are applied.
C5_TruncatedIsDiscarded ==
    [][pc = "recv" =>
          /\ discarded' # discarded =>
                /\ IsTruncated(packet')
                /\ pc' = "recv"
          /\ ReceiveStep /\ IsTruncated(packet') =>
                /\ UNCHANGED <<localVars, regVars, mapVars, windowOpen, connected>>
                /\ discarded'
          /\ ReceiveStep /\ discarded /\ IsWelcome(packet') => myPlayerId' = packet'[2]
          /\ ReceiveStep /\ discarded /\ IsState(packet') /\ packet'[2] = myPlayerId =>
                /\ playerPos' = <<packet'[3], packet'[4]>>
                /\ myIsOnGround' = (packet'[5] # 0)
          /\ ReceiveStep /\ discarded /\ IsJoined(packet') /\ packet'[2] # myPlayerId =>
                packet'[2] \in DOMAIN otherPlayers'
          /\ ReceiveStep /\ discarded /\ IsLeft(packet') /\ packet'[2] # myPlayerId =>
                packet'[2] \notin DOMAIN otherPlayers']_vars

\* C5 witness: in a drain that dropped a packet, a later PlayerJoined has
\* created its record.
C5_Witness ==
    /\ pc = "recv"
    /\ discarded
    /\ IsJoined(packet)
    /\ ~hadRecord
    /\ packet[2] \in DOMAIN otherPlayers

\* C6: a PlayerJoined for an ID that has a record changes no record: the ID
\* keeps its one record, with its position, animation state, frame index,
\* frame timer and facing.
C6_JoinExistingIsNoOp ==
    [][ReceiveStep /\ IsJoined(packet') /\ packet'[2] \in DOMAIN otherPlayers =>
          UNCHANGED <<regVars, localVars>>]_vars

\* C6 witness: a PlayerJoined was applied for an ID whose record, made in an
\* earlier frame, has another position and a running timer.
C6_Witness ==
    /\ pc = "recv"
    /\ IsJoined(packet)
    /\ hadRecord
    /\ otherPlayers[packet[2]] # <<packet[3], packet[4]>>
    /\ otherPlayersAnimTimer[packet[2]] > 0
    /\ otherPlayersAnimState[packet[2]] # (IF packet[5] # 0 THEN "Stand" ELSE "Jump")

\* C7: a PlayerLeft for an ID without a record changes nothing, and a
\* PlayerLeft applied a second time changes nothing either.
C7_LeaveAbsentIsNoOp ==
    [][ReceiveStep /\ IsLeft(packet')
          /\ (packet'[2] \notin DOMAIN otherPlayers \/ packet' = packet) =>
          UNCHANGED <<regVars, localVars, mapVars, animVars, windowOpen, connected,
                      currentInput>>]_vars

\* C7 witness: a PlayerLeft was applied for an ID that had no record, while
\* another player has one.
C7_Witness ==
    /\ pc = "recv"
    /\ IsLeft(packet)
    /\ ~hadRecord
    /\ packet[2] # myPlayerId
    /\ DOMAIN otherPlayers # {}

\* C8: from Stand with the cooldown expired and the ground flag false, the
\* frame's update changes the state to Jump (frame index and timer reset,
\* cooldown started); when the ground flag is still false in the next
\* frame, that update changes no state, restarts no cooldown and resets
\* neither frame index nor timer.
C8_JumpOnce ==
    [][AnimateStep =>
          /\ currentAnimState = "Stand" /\ stateChangeCooldownTimer <= 0 /\ ~myIsOnGround =>
                /\ currentAnimState' = "Jump"
                /\ currentFrame' = 0
                /\ animTimer' = 0
                /\ stateChangeCooldownTimer' = STATE_CHANGE_COOLDOWN
          /\ airborneFrames = 1 /\ ~myIsOnGround =>
                /\ currentAnimState = "Jump"
                /\ currentAnimState' = "Jump"
                /\ stateChangeCooldownTimer' = stateChangeCooldownTimer
                /\ IF animTimer >= animData["Jump"].timePerFrame
                   THEN /\ animTimer' = animTimer - animData["Jump"].timePerFrame
                        /\ currentFrame' = (currentFrame + 1) % animData["Jump"].frameCount
                   ELSE /\ animTimer' = animTimer
                        /\ currentFrame' = currentFrame]_vars

\* C8 witness: the second airborne frame after a Stand has been animated,
\* with a direction key held and the cooldown still running.
C8_Witness ==
    /\ pc = "loop"
    /\ airborneFrames = 2
    /\ currentInput.left
    /\ stateChangeCooldownTimer > 0

\* C9: a PlayerState for another player that has a record sets its state to
\* Jump when the packet says airborne, else Walk when x moved by more than
\* 0.1, else Stand; it faces right after an increase of x, left after a
\* decrease and as before when x is the same.  An increase of 5.0 on the
\* ground gives Walk, facing right.
C9_RemoteTransition ==
    [][ReceiveStep /\ IsState(packet') /\ packet'[2] # myPlayerId
          /\ packet'[2] \in DOMAIN otherPlayers =>
          LET id == packet'[2]
              x == packet'[3]
              prevX == otherPlayers[id][1]
              onGround == packet'[5] # 0
          IN
          /\ otherPlayersAnimState'[id] =
                IF ~onGround THEN "Jump"
                ELSE IF x - prevX > 1 \/ prevX - x > 1 THEN "Walk"
                ELSE "Stand"
          /\ x > prevX => otherPlayersFacingRight'[id]
          /\ x < prevX => ~otherPlayersFacingRight'[id]
          /\ x = prevX => otherPlayersFacingRight'[id] = otherPlayersFacingRight[id]
          /\ onGround /\ x = prevX + 50 =>
                otherPlayersAnimState'[id] = "Walk" /\ otherPlayersFacingRight'[id]]_vars

\* C9 witness: a player with a record, last seen facing left, took a
\* PlayerState on the ground 5.0 further right.
C9_Witness ==
    /\ pc = "recv"
    /\ hadRecord
    /\ packet = Fields(TagPlayerState, 2, <<50, 30>>, TRUE)
    /\ otherPlayersAnimState[2] = "Walk"
    /\ otherPlayersFacingRight[2]
    /\ otherPlayersCurrentFrame[2] = 0
    /\ otherPlayersAnimTimer[2] = 0
    /\ frames = 2

\* C10: a connected frame sends one PlayerInput, before the first inbound
\* packet is applied; inbound packets are applied one after the other in
\* the receive loop, each by the step that receives it; the animation
\* update runs once the loop has ended and no packet is applied after it in
\* that frame.
C10_FrameOrder ==
    /\ [](pc \in {"recv", "crashed"} => sentInputs = 1)
    /\ [](sentInputs <= 1)
    /\ [][/\ pc = "send" /\ connected => sentInputs' = 1 /\ pc' = "recv"
          /\ pc = "send" /\ ~connected => sentInputs' = 0 /\ pc' = "anim"
          /\ pc # "send" /\ pc # "loop" => sentInputs' = sentInputs
          /\ <<localVars, otherPlayers, otherPlayersAnimState, otherPlayersFacingRight,
               mapVars>>' #
             <<localVars, otherPlayers, otherPlayersAnimState, otherPlayersFacingRight,
               mapVars>> => ReceiveStep /\ sentInputs = 1
          /\ packet' # packet /\ packet' # << >> => ReceiveStep
          /\ animVars' # animVars /\ pc \notin {"loop", "input"} => AnimateStep
          /\ otherPlayersCurrentFrame' # otherPlayersCurrentFrame =>
                ReceiveStep \/ AnimateStep
          /\ pc = "anim" => pc' = "loop"]_vars

\* C10 witness: a frame has ended in which an input was sent, a Welcome and
\* then a PlayerState were applied, and the animation changed state.
C10_Witness ==
    /\ pc = "loop"
    /\ frames = 1
    /\ sentInputs = 1
    /\ myPlayerId = 2
    /\ playerPos = <<1, 0>>
    /\ ~myIsOnGround
    /\ currentAnimState = "Jump"

\* C11: a frame that starts disconnected makes one connect attempt; while the
\* client has not connected it sends and drains nothing; the connection is
\* lost only at the check after the drain, which closes the session, and
\* after that there is no connect attempt, no send and no receive, so the
\* client connects at most once.
C11_ConnectionLifecycle ==
    /\ [](connectAttempts <= 1)
    /\ [](serverLost => ~connected /\ ~windowOpen)
    /\ [](~connected /\ ~serverLost => sentInputs = 0 /\ pc # "recv" /\ packet = << >>)
    /\ [][/\ pc = "loop" /\ pc' = "input" =>
                connectAttempts' = (IF connected THEN 0 ELSE 1)
          /\ ~connected /\ connected' => pc = "loop" /\ connectAttempts' = 1 /\ ~serverLost
          /\ connected /\ ~connected' => pc = "recv" /\ serverLost' /\ ~windowOpen'
          /\ serverLost =>
                /\ pc' \in {"loop", "exit"}
                /\ UNCHANGED <<connected, windowOpen, connectAttempts, sentInputs, packet>>]_vars

\* C11 witness: the session has ended after a first frame that failed to
\* connect and a second that connected and then lost the server.
C11_Witness ==
    /\ pc = "exit"
    /\ serverLost
    /\ frames = 2
    /\ connectAttempts = 1
    /\ sentInputs = 1

\* a MapData with width, height and exactly width*height tiles
IsFullMap(p) ==
    /\ Len(p) >= 3
    /\ p[1] = TagMapData
    /\ Len(p) = 3 + p[2] * p[3]

\* the cells with tile code 1 of a MapData, row-major, as <<x, y>>
SolidCells(p) ==
    LET w == p[2]
        solid == SelectSeq([k \in 1..(w * p[3]) |-> k], LAMBDA k : p[3 + k] = 1)
    IN [i \in 1..Len(solid) |-> <<(solid[i] - 1) % w, (solid[i] - 1) \div w>>]

\* C12: after a well-formed MapData the grid has height rows of width cells
\* holding the message's tiles in row-major order, the shape list has one
\* shape per cell with tile code 1 and none of the previous map, and the map
\* is loaded, whatever map was there before.
C12_MapReplacedWholesale ==
    [][ReceiveStep /\ IsFullMap(packet') =>
          LET w == packet'[2]
              h == packet'[3]
          IN
          /\ pc' = "recv"
          /\ clientMapWidth' = w
          /\ clientMapHeight' = h
          /\ clientTileMap' = [y \in 1..h |-> [x \in 1..w |-> packet'[3 + (y - 1) * w + x]]]
          /\ mapShapes' = SolidCells(packet')
          /\ mapLoaded']_vars

\* C13: a PlayerState on the ground for an ID without a record makes a
\* record in state Stand, frame index 0, facing right, at the position of
\* the message, whatever that position is.
C13_CreatedRecordStands ==
    [][ReceiveStep /\ IsState(packet') /\ packet'[2] # myPlayerId
          /\ packet'[2] \notin DOMAIN otherPlayers /\ packet'[5] # 0 =>
          LET id == packet'[2] IN
          /\ id \in DOMAIN otherPlayers'
          /\ otherPlayers'[id] = <<packet'[3], packet'[4]>>
          /\ otherPlayersAnimState'[id] = "Stand"
          /\ otherPlayersCurrentFrame'[id] = 0
          /\ otherPlayersFacingRight'[id]]_vars

\* C14: after a PlayerLeft(id) none of the five maps has an entry for id.
C14_LeftRemovesRecord ==
    [][ReceiveStep /\ IsLeft(packet') =>
          /\ packet'[2] \notin DOMAIN otherPlayers'
          /\ packet'[2] \notin DOMAIN otherPlayersAnimState'
          /\ packet'[2] \notin DOMAIN otherPlayersCurrentFrame'
          /\ packet'[2] \notin DOMAIN otherPlayersAnimTimer'
          /\ packet'[2] \notin DOMAIN otherPlayersFacingRight']_vars

\* a packet whose tag has no case in the switch
IsUnknown(p) ==
    /\ Len(p) >= 1
    /\ p[1] \notin {TagWelcome, TagPlayerState, TagPlayerJoined, TagPlayerLeft, TagMapData}

\* C15: a packet with a tag the switch has no case for (PlayerInput, or a
\* byte that is no tag) changes neither the local ID, position and ground
\* flag, nor the registry, the map, the window or the connection; the loop
\* goes on receiving, and the packets that follow it in the same drain are
\* applied.
C15_UnknownTagIsDiscarded ==
    [][pc = "recv" =>
          /\ unknownSeen' # unknownSeen => IsUnknown(packet') /\ pc' = "recv"
          /\ packet' # << >> /\ IsUnknown(packet') =>
                /\ UNCHANGED <<localVars, regVars, mapVars, animVars, windowOpen, connected>>
                /\ unknownSeen'
                /\ pc' = "recv"
          /\ ReceiveStep /\ unknownSeen /\ IsWelcome(packet') => myPlayerId' = packet'[2]
          /\ ReceiveStep /\ unknownSeen /\ IsState(packet') /\ packet'[2] = myPlayerId =>
                /\ playerPos' = <<packet'[3], packet'[4]>>
                /\ myIsOnGround' = (packet'[5] # 0)
          /\ ReceiveStep /\ unknownSeen /\ IsState(packet') /\ packet'[2] # myPlayerId =>
                otherPlayers'[packet'[2]] = <<packet'[3], packet'[4]>>
          /\ ReceiveStep /\ unknownSeen /\ IsJoined(packet') /\ packet'[2] # myPlayerId =>
                packet'[2] \in DOMAIN otherPlayers'
          /\ ReceiveStep /\ unknownSeen /\ IsLeft(packet') /\ packet'[2] # myPlayerId =>
                packet'[2] \notin DOMAIN otherPlayers'
          /\ ReceiveStep /\ unknownSeen /\ IsFullMap(packet') => mapLoaded']_vars

\* C15 witness: in a drain that met a packet with such a tag, a later
\* PlayerJoined has created its record.
C15_Witness ==
    /\ pc = "recv"
    /\ unknownSeen
    /\ ~discarded
    /\ IsJoined(packet)
    /\ ~hadRecord
    /\ packet[2] \in DOMAIN otherPlayers
    /\ myPlayerId = 1

\* C16: the animation state of the local player and of every player in the
\* registry has a descriptor, and the frame index is at least 0 and less
\* than the frame count of that descriptor.
C16_FrameIndexInRange ==
    /\ currentAnimState \in DOMAIN animData
    /\ currentFrame >= 0
    /\ currentFrame < animData[currentAnimState].frameCount
    /\ \A id \in DOMAIN otherPlayers :
          /\ id \in DOMAIN otherPlayersAnimState
          /\ id \in DOMAIN otherPlayersCurrentFrame
          /\ otherPlayersAnimState[id] \in DOMAIN animData
          /\ otherPlayersCurrentFrame[id] >= 0
          /\ otherPlayersCurrentFrame[id] < animData[otherPlayersAnimState[id]].frameCount

\* C16 witness: the local player shows the last frame of Jump while another
\* player shows the last frame of Walk.
C16_Witness ==
    /\ pc = "loop"
    /\ currentAnimState = "Jump"
    /\ currentFrame = animData["Jump"].frameCount - 1
    /\ 2 \in DOMAIN otherPlayers
    /\ otherPlayersAnimState[2] = "Walk"
    /\ otherPlayersCurrentFrame[2] = animData["Walk"].frameCount - 1

\* C17: the local animation state changes only in the update of a frame in
\* which the cooldown is <= 0, at least 0.1 of accumulated frame time after
\* the change before it, and the change sets the cooldown to 0.1; another
\* player's state is set to the target of a PlayerState by that very
\* message, whatever the cooldown is.
C17_LocalCooldownGate ==
    [][/\ currentAnimState' # currentAnimState =>
             /\ AnimateStep
             /\ stateChangeCooldownTimer <= 0
             /\ sinceChange >= STATE_CHANGE_COOLDOWN
             /\ stateChangeCooldownTimer' = STATE_CHANGE_COOLDOWN
       /\ stateChangeCooldownTimer' > stateChangeCooldownTimer =>
             currentAnimState' # currentAnimState
       /\ ReceiveStep /\ IsState(packet') /\ packet'[2] # myPlayerId
             /\ packet'[2] \in DOMAIN otherPlayers =>
             otherPlayersAnimState'[packet'[2]] =
                IF packet'[5] = 0 THEN "Jump"
                ELSE IF packet'[3] - otherPlayers[packet'[2]][1] > 1
                        \/ otherPlayers[packet'[2]][1] - packet'[3] > 1 THEN "Walk"
                ELSE "Stand"]_vars

\* C17 witness: half a cooldown after the local player changed to Jump it
\* is back on the ground with the cooldown still running, and a PlayerState
\* has set another player, two messages in one drain, to Jump.
C17_Witness ==
    /\ pc = "recv"
    /\ frames = 2
    /\ currentAnimState = "Jump"
    /\ myIsOnGround
    /\ stateChangeCooldownTimer > 0
    /\ sinceChange < STATE_CHANGE_COOLDOWN
    /\ hadRecord
    /\ IsState(packet)
    /\ packet[2] = 2
    /\ otherPlayersAnimState[2] = "Jump"
    /\ otherPlayersAnimTimer[2] = 0

\* C18: a change of the local state in the animation update leaves frame
\* index 0 and timer 0 at the end of the frame, and an update without a
\* change only applies the frame advance; a PlayerState that changes
\* another player's state leaves its frame index 0 and timer 0, and these
\* stay so to the end of the frame; a message that does not change its
\* state leaves its frame index and timer as they were.
C18_ResetOnChange ==
    [][/\ AnimateStep /\ currentAnimState' # currentAnimState =>
             currentFrame' = 0 /\ animTimer' = 0
       /\ AnimateStep /\ currentAnimState' = currentAnimState =>
             LET data == animData[currentAnimState] IN
             IF animTimer >= data.timePerFrame
             THEN /\ currentFrame' = (currentFrame + 1) % data.frameCount
                  /\ animTimer' = animTimer - data.timePerFrame
             ELSE /\ currentFrame' = currentFrame
                  /\ animTimer' = animTimer
       /\ ReceiveStep =>
             \A id \in DOMAIN otherPlayersAnimState \cap DOMAIN otherPlayersAnimState' :
                /\ otherPlayersAnimState'[id] # otherPlayersAnimState[id] =>
                      otherPlayersCurrentFrame'[id] = 0 /\ otherPlayersAnimTimer'[id] = 0
                /\ otherPlayersAnimState'[id] = otherPlayersAnimState[id] =>
                      /\ otherPlayersCurrentFrame'[id] = otherPlayersCurrentFrame[id]
                      /\ otherPlayersAnimTimer'[id] = otherPlayersAnimTimer[id]
       /\ pc \in {"recv", "anim"} =>
             \A id \in DOMAIN otherPlayersAnimTimer \cap DOMAIN otherPlayersAnimTimer' :
                otherPlayersCurrentFrame[id] = 0 /\ otherPlayersAnimTimer[id] = 0 =>
                   otherPlayersCurrentFrame'[id] = 0 /\ otherPlayersAnimTimer'[id] = 0]_vars

\* C18 witness: a PlayerState that keeps another player walking has left
\* its frame index 3 and its running timer, in a frame that follows a
\* change of the local state to Jump.
C18_Witness ==
    /\ pc = "recv"
    /\ hadRecord
    /\ IsState(packet)
    /\ packet[2] = 2
    /\ otherPlayersAnimState[2] = "Walk"
    /\ otherPlayersCurrentFrame[2] = 3
    /\ otherPlayersAnimTimer[2] > 0
    /\ currentAnimState = "Jump"
    /\ currentFrame = 0
    /\ animTimer = 10

\* C19: a PlayerState, PlayerJoined or PlayerLeft for an ID other than the
\* local ID changes neither the local ground flag, position, animation
\* state, frame index nor cooldown; the state a PlayerState gives the other
\* player follows from the message's ground flag and x and the x recorded
\* before, whatever the local ground flag is.
C19_RemoteLeavesLocalAlone ==
    [][ReceiveStep /\ (IsState(packet') \/ IsJoined(packet') \/ IsLeft(packet'))
          /\ packet'[2] # myPlayerId =>
          LET id == packet'[2] IN
          /\ UNCHANGED <<myPlayerId, myIsOnGround, playerPos, currentAnimState, currentFrame,
                         animTimer, stateChangeCooldownTimer>>
          /\ IsState(packet') /\ id \in DOMAIN otherPlayers =>
                otherPlayersAnimState'[id] =
                   IF packet'[5] = 0 THEN "Jump"
                   ELSE IF packet'[3] - otherPlayers[id][1] > 1
                           \/ otherPlayers[id][1] - packet'[3] > 1 THEN "Walk"
                   ELSE "Stand"
          /\ IsState(packet') /\ id \notin DOMAIN otherPlayers =>
                (otherPlayersAnimState'[id] = "Jump") = (packet'[5] = 0)]_vars

\* C19 witness: while the local player is airborne and in the third frame of
\* Jump, a PlayerState on the ground at an unchanged x has put another
\* player in Stand.
C19_Witness ==
    /\ pc = "recv"
    /\ ~myIsOnGround
    /\ currentAnimState = "Jump"
    /\ currentFrame = 2
    /\ hadRecord
    /\ IsState(packet)
    /\ packet[2] = 2
    /\ packet[5] # 0
    /\ otherPlayersAnimState[2] = "Stand"
    /\ otherPlayersAnimTimer[2] = 0

\* C20: once the window is closed, by the close event at the start of a
\* frame or by the disconnect found after the drain, the frame goes on step
\* by step as an open one does: the input is sampled and, if connected,
\* sent, the inbound packets are applied, the animation is updated; then
\* the loop ends and no frame is started.
C20_CooperativeClose ==
    /\ [](~windowOpen /\ pc = "input" => ENABLED SampleInput(FALSE, FALSE, FALSE))
    /\ [](~windowOpen /\ pc = "send" => ENABLED SendInput)
    /\ [](~windowOpen /\ pc = "recv" =>
             ENABLED Receive(<<TagWelcome, 1>>) /\ ENABLED EndReceive(FALSE))
    /\ [](~windowOpen /\ pc = "anim" => ENABLED Animate)
    /\ [](~windowOpen /\ pc = "loop" => ENABLED Exit)
    /\ [][/\ pc = "loop" => pc' \in {"input", "exit"}
          /\ ~windowOpen => ~windowOpen'
          /\ ~windowOpen /\ pc = "input" => pc' = "send"
          /\ ~windowOpen /\ pc = "send" =>
                IF connected THEN pc' = "recv" /\ sentInputs' = sentInputs + 1
                ELSE pc' = "anim" /\ sentInputs' = sentInputs
          /\ ~windowOpen /\ pc = "recv" =>
                /\ pc' \in {"recv", "anim"}
                /\ IsWelcome(packet') => myPlayerId' = packet'[2]
                /\ IsState(packet') /\ packet'[2] = myPlayerId =>
                      playerPos' = <<packet'[3], packet'[4]>>
          /\ ~windowOpen /\ pc = "anim" =>
                /\ pc' = "loop"
                /\ currentAnimState # LocalTargetState(myIsOnGround, currentInput)
                      /\ stateChangeCooldownTimer <= 0 =>
                      currentAnimState' = LocalTargetState(myIsOnGround, currentInput)
          /\ ~windowOpen /\ pc = "loop" => pc' = "exit" /\ frames' = frames
          /\ pc = "exit" => pc' = "exit"]_vars

\* C20 witness: the session has ended after one frame that began with the
\* close event and still connected, sent the input, applied a Welcome and a
\* PlayerState and changed the animation state.
C20_Witness ==
    /\ pc = "exit"
    /\ ~serverLost
    /\ frames = 1
    /\ sentInputs = 1
    /\ myPlayerId = 1
    /\ playerPos = <<1, 0>>
    /\ currentAnimState = "Jump"

\* ------------------------------------------------------------ C21

\* a packet of the three registry messages, whole or cut short
IsRegistryPacket(p) ==
    Len(p) >= 1 /\ p[1] \in {TagPlayerState, TagPlayerJoined, TagPlayerLeft}

\* C21: in every state, between any two statements of the frame, the sprite
\* map, the animation-state map, the frame-index map, the frame-timer map and
\* the facing map have the same set of keys, whatever PlayerState,
\* PlayerJoined and PlayerLeft packets, whole or cut short, have arrived
C21_SameKeys ==
    /\ DOMAIN otherPlayersAnimState = DOMAIN otherPlayers
    /\ DOMAIN otherPlayersCurrentFrame = DOMAIN otherPlayers
    /\ DOMAIN otherPlayersAnimTimer = DOMAIN otherPlayers
    /\ DOMAIN otherPlayersFacingRight = DOMAIN otherPlayers

\* both IDs have a record in all five maps (that of ID 1 was made before the
\* Welcome) and a registry packet cut short has just been given up
C21_Witness ==
    /\ pc = "recv"
    /\ IsRegistryPacket(packet)
    /\ Dropped(packet)
    /\ myPlayerId = 1
    /\ DOMAIN otherPlayers = {1, 2}
    /\ DOMAIN otherPlayersFacingRight = {1, 2}

\* ------------------------------------------------------------ C22

\* the start of a frame (lines 143-150)
FrameStart == pc = "loop" /\ pc' = "input"

\* a direction key is held in the sample of the frame
Directional == currentInput.left \/ currentInput.right

\* C22: in a session whose frames keep coming, if from some frame on the
\* local ground flag and the directional input no longer change and every
\* frame starts with a positive elapsed time, then from some point on the
\* local animation state equals the policy target of that flag and input
\* (Jump off the ground, else Walk with a direction held, else Stand) for
\* ever: the change the cooldown holds back is made once the cooldown is over
C22_DeferredChangeIsMade ==
    (/\ []<><<FrameStart>>_vars
     /\ <>[][myIsOnGround' = myIsOnGround /\ Directional' = Directional]_vars
     /\ <>[][FrameStart => animTimer' > animTimer]_vars)
    => <>[](currentAnimState = LocalTargetState(myIsOnGround, currentInput))

\* the update of this frame made a change that an earlier frame's cooldown
\* held back: the state now equals the target
C22_Witness ==
    /\ pc = "loop"
    /\ deferral = "applied"
    /\ currentAnimState = LocalTargetState(myIsOnGround, currentInput)
    /\ stateChangeCooldownTimer = STATE_CHANGE_COOLDOWN
====
